---- MODULE Spec2Model ----
(***************************************************************************)
(* HuggingFaceModelWrapper (textattack/models/wrappers/                    *)
(* huggingface_model_wrapper.py): __call__ (predict), _model_predict and   *)
(* get_grads, together with the shared model state they read and mutate.   *)
(***************************************************************************)
EXTENDS Integers, Sequences, FiniteSets, TLC

\* ------------------------------------------------------------------ bounds
MaxTexts == 3
MaxGradTexts == 2
MaxBatch == 3
MaxCalls == 2

Threads == {1, 2}

\* ------------------------------------------------------------ input spaces
\* Raw texts are sequences of word ids; the wrapper never looks inside them.
TextSet == {<<1>>, <<2, 1>>}

RECURSIVE SeqsUpTo(_, _)
SeqsUpTo(S, n) ==
    IF n = 0 THEN {<<>>}
    ELSE LET shorter == SeqsUpTo(S, n - 1)
         IN  shorter \cup {Append(s, x) : s \in {q \in shorter : Len(q) = n - 1}, x \in S}

TextLists == SeqsUpTo(TextSet, MaxTexts)
\* get_grads only counts its texts and passes them on: lists of every length
\* up to MaxGradTexts of one text, and a list holding a different text.
GradTextLists == SeqsUpTo({<<2, 1>>}, MaxGradTexts) \cup {<< <<1>> >>}
ConcTextLists == {<<>>, << <<2, 1>> >>}

\* Per-text encodings handed directly to _model_predict: with or without the
\* attention_mask field, and with id sequences of different lengths.
IdSeqs == {<<1, 0>>, <<2, 1>>, <<2>>}
EncodedSet ==
    {[input_ids |-> s] : s \in IdSeqs}
      \cup {[input_ids |-> s, attention_mask |-> [i \in 1..Len(s) |-> 1]] : s \in IdSeqs}
EncodedLists == SeqsUpTo(EncodedSet, 2)

Min(a, b) == IF a < b THEN a ELSE b

RECURSIVE SumSeq(_)
SumSeq(s) == IF s = <<>> THEN 0 ELSE s[1] + SumSeq(Tail(s))

\* ---------------------------------------------------------------- tokenizer
\* tokenizer.encode: one EncodedInput per text, mapping each field name to a
\* sequence of integers with one entry per token of the text.
Encode(text) ==
    [input_ids      |-> [i \in 1..Len(text) |-> text[i]],
     attention_mask |-> [i \in 1..Len(text) |-> 1]]

\* self.tokenize(text_input_list): one EncodedInput per text, in order.
tokenize(texts) == [i \in 1..Len(texts) |-> Encode(texts[i])]

\* tokenizer.convert_ids_to_tokens(ids)
convert_ids_to_tokens(ids) == [i \in 1..Len(ids) |-> ToString(ids[i])]

\* ------------------------------------------------------------- model forward
\* What the stochastic layers (dropout) of the model contribute to one
\* forward pass.  They are active in training mode only.
Dropout == {0, 1}

\* The dropout draws of the successive forward passes of one __call__.
DropoutSeqs(train, n) ==
    IF train THEN [1..n -> Dropout] ELSE {[k \in 1..n |-> 0]}

\* Scores of one example in one forward pass with dropout draw d.
Logits(ids, mask, d) ==
    <<SumSeq([i \in 1..Len(ids) |-> ids[i] * mask[i]]) + d,
      SumSeq([i \in 1..Len(ids) |-> i * ids[i] * mask[i]]) - 2>>

\* self.model(**input_dict): input_dict maps a field name to a batch x seq
\* tensor.  A missing attention_mask defaults to all ones.  A text-to-text
\* model returns a list of strings, a classifier a tuple whose first item
\* is the batch x classes score tensor.  In evaluation mode the output is a
\* function of the input; in training mode it also depends on the draw d.
ModelForward(kind, train, d, input_dict) ==
    LET ids == input_dict["input_ids"]
        n   == Len(ids)
        e   == IF train THEN d ELSE 0
        mask(i) == IF "attention_mask" \in DOMAIN input_dict
                   THEN input_dict["attention_mask"][i]
                   ELSE [j \in 1..Len(ids[i]) |-> 1]
    IN  IF kind = "t5"
        THEN [kind |-> "strings",
              items |-> [i \in 1..n |-> IF e = 0 THEN ToString(ids[i])
                                        ELSE ToString(<<ids[i], e>>)]]
        ELSE [kind |-> "tuple",
              items |-> <<[i \in 1..n |-> Logits(ids[i], mask(i), e)]>>]

\* torch.tensor(v) accepts a list of lists only when it is rectangular.
Rectangular(v) == \A i \in 1..Len(v) : Len(v[i]) = Len(v[1])

\* _model_predict(inputs): list of dicts -> dict of lists -> tensors -> model.
\* The field names are those of inputs[0]; a later dict is indexed by them.
_model_predict(kind, train, d, inputs) ==
    IF inputs = <<>>
    THEN [outcome |-> "IndexError", value |-> <<>>, forwards |-> 0]
    ELSE IF \E i \in 1..Len(inputs) : \E k \in DOMAIN inputs[1] : k \notin DOMAIN inputs[i]
    THEN [outcome |-> "KeyError", value |-> <<>>, forwards |-> 0]
    ELSE LET input_dict == [k \in DOMAIN inputs[1] |->
                               [i \in 1..Len(inputs) |-> inputs[i][k]]]
         IN  IF \E k \in DOMAIN input_dict : ~Rectangular(input_dict[k])
             THEN [outcome |-> "ValueError", value |-> <<>>, forwards |-> 0]
             ELSE LET outputs == ModelForward(kind, train, d, input_dict)
                  IN  IF outputs.kind = "strings"
                      THEN [outcome |-> "returned", value |-> outputs.items, forwards |-> 1]
                      ELSE [outcome |-> "returned", value |-> outputs.items[1], forwards |-> 1]

\* batch_model_predict(self._model_predict, ids, batch_size): apply the
\* prediction function to successive slices and concatenate in order.
\* noise[k] is the dropout draw of the k-th forward pass.
RECURSIVE BatchFrom(_, _, _, _, _, _, _)
BatchFrom(kind, train, noise, inputs, i, bs, k) ==
    IF i > Len(inputs)
    THEN [outcome |-> "returned", value |-> <<>>, forwards |-> 0]
    ELSE LET r == _model_predict(kind, train, noise[k],
                                 SubSeq(inputs, i, Min(i + bs - 1, Len(inputs))))
         IN  IF r.outcome # "returned"
             THEN r
             ELSE LET rest == BatchFrom(kind, train, noise, inputs, i + bs, bs, k + 1)
                  IN  [outcome  |-> rest.outcome,
                       value    |-> IF rest.outcome = "returned"
                                    THEN r.value \o rest.value ELSE <<>>,
                       forwards |-> r.forwards + rest.forwards]

batch_model_predict(kind, train, noise, inputs, bs) ==
    BatchFrom(kind, train, noise, inputs, 1, bs, 1)

\* __call__(text_input_list)
Call(kind, train, noise, texts, bs) ==
    batch_model_predict(kind, train, noise, tokenize(texts), bs)

\* ------------------------------------------------------------ gradient tensors
\* The tensor handed to grad_hook as grad_out[0]: the gradient of the loss
\* with respect to the embedding layer's output for a batch of n examples of
\* L tokens each.  owner is the get_grads call whose backward pass produced it.
EmbeddingGrad(c, dims, n, L) ==
    IF dims = 3
    THEN [owner |-> c, shape |-> <<n, L, 1>>,
          data  |-> [b \in 1..n |-> [s \in 1..L |-> <<10 * b + s>>]]]
    ELSE [owner |-> c, shape |-> <<n, 1>>,
          data  |-> [b \in 1..n |-> <<10 * b>>]]

\* list(torch.transpose(grad, 0, 1).unbind(dim=0))
TransposeUnbind(g) ==
    [j \in 1..g.shape[2] |->
        [owner |-> g.owner,
         shape |-> <<g.shape[1]>> \o SubSeq(g.shape, 3, Len(g.shape)),
         data  |-> [b \in 1..g.shape[1] |-> g.data[b][j]]]]

\* lines 95-98: split a tensor of more than two dimensions, wrap otherwise.
GradList(g) == IF Len(g.shape) > 2 THEN TransposeUnbind(g) ELSE <<g>>

\* ----------------------------------------------------------------------- state
VARIABLES
    modelKind,      \* "classifier" | "t5": isinstance(self.model, T5ForTextToText)
    embDims,        \* dimensions of the embedding layer's output gradient
    batch_size,     \* self.batch_size
    training,       \* self.model.training
    requires_grad,  \* embedding_layer.weight.requires_grad
    hooks,          \* backward hooks registered on the embedding layer
    paramGrads,     \* calls whose backward pass is accumulated in .grad
    nCalls,         \* get_grads calls that got past the model-type check
    frame,          \* per thread: position in get_grads and its locals
    last,           \* the last __call__ / _model_predict invocation
    gradsEntered,   \* history: some get_grads call executed model.train()
    overlapped,     \* history: a get_grads call started while another ran
    failed,         \* history: some get_grads call left by an exception
    flag0,          \* history: requires_grad at construction
    training0,      \* history: model.training at construction
    streak          \* history: current run of normally returning get_grads calls

vars == <<modelKind, embDims, batch_size, training, requires_grad, hooks,
          paramGrads, nCalls, frame, last, gradsEntered,
          overlapped, failed, flag0, training0, streak>>

modelVars == <<training, requires_grad, hooks, paramGrads>>
configVars == <<modelKind, embDims, batch_size, flag0, training0>>

Snapshot == [training |-> training, requires_grad |-> requires_grad,
             hooks |-> hooks, paramGrads |-> paramGrads]

NoFrame ==
    [pc |-> "idle", op |-> "none", texts |-> <<>>, call |-> 0,
     original_state |-> FALSE, ids |-> <<>>, tokens |-> <<>>,
     predictions |-> <<>>, fwdHooks |-> {}, emb_grads |-> <<>>,
     grad |-> <<>>,
     outcome |-> "none",
     pre |-> [training |-> FALSE, requires_grad |-> FALSE, hooks |-> {},
              paramGrads |-> {}]]

NoLast == [op |-> "none", texts |-> <<>>, inputs |-> <<>>, outcome |-> "none",
           value |-> <<>>, fwdCount |-> 0, fwdTraining |-> FALSE,
           fwdAfterGrads |-> FALSE, fault |-> FALSE, noise |-> <<>>]

\* __init__: the wrapper takes the model as it is handed over: either
\* family, in train or eval mode, embedding weights frozen or trainable,
\* with or without gradients accumulated by earlier training (call 0).
Init ==
    /\ modelKind \in {"classifier", "t5"}
    /\ embDims \in {2, 3}
    /\ batch_size \in 1..MaxBatch
    /\ training \in BOOLEAN
    /\ requires_grad \in BOOLEAN
    /\ flag0 = requires_grad
    /\ training0 = training
    /\ hooks = {}
    /\ paramGrads \in {{}, {0}}
    /\ nCalls = 0
    /\ frame = [t \in Threads |-> NoFrame]
    /\ last = NoLast
    /\ gradsEntered = FALSE
    /\ overlapped = FALSE
    /\ failed = FALSE
    /\ streak = [len |-> 0, flag |-> FALSE]

AllIdle == \A t \in Threads : frame[t].pc = "idle"

\* --------------------------------------------------------------- __call__
\* Where a collaborator raises during __call__: 0 nowhere, 1 in the
\* tokenizer, k + 1 in the model's k-th forward pass.
FaultPoints(texts) == 0..(Len(texts) + 1)

\* lines 44-57.  The exception of the tokenizer or of the model propagates
\* unchanged; the forward passes of the earlier batches have run by then.
Predict(texts, fault, noise) ==
    /\ AllIdle
    /\ LET r == Call(modelKind, training, noise, texts, batch_size)
       IN  /\ fault <= r.forwards + 1
           /\ last' = [op |-> "predict", texts |-> texts, inputs |-> <<>>,
                       outcome |-> IF fault # 0 THEN "RuntimeError" ELSE r.outcome,
                       value |-> IF fault # 0 THEN <<>> ELSE r.value,
                       fwdCount |-> IF fault = 0 THEN r.forwards
                                    ELSE IF fault = 1 THEN 0 ELSE fault - 2,
                       fwdTraining |-> training,
                       fwdAfterGrads |-> gradsEntered,
                       fault |-> (fault # 0),
                       noise |-> noise]
    /\ frame' = [t \in Threads |-> NoFrame]
    /\ UNCHANGED <<modelVars, configVars, nCalls, gradsEntered, overlapped,
                   failed, streak>>

\* _model_predict(inputs) invoked directly on a list of per-text mappings.
ModelPredictCall(inputs, d) ==
    /\ AllIdle
    /\ (training \/ d = 0)
    /\ LET r == _model_predict(modelKind, training, d, inputs)
       IN  last' = [op |-> "_model_predict", texts |-> <<>>, inputs |-> inputs,
                    outcome |-> r.outcome, value |-> r.value,
                    fwdCount |-> r.forwards, fwdTraining |-> training,
                    fwdAfterGrads |-> gradsEntered, fault |-> FALSE,
                    noise |-> <<d>>]
    /\ frame' = [t \in Threads |-> NoFrame]
    /\ UNCHANGED <<modelVars, configVars, nCalls, gradsEntered, overlapped,
                   failed, streak>>

\* --------------------------------------------------------------- get_grads
\* An exception propagates out of get_grads: there is no try/finally, so
\* control leaves at the raising line and nothing after it runs.
Raise(t, exc) ==
    /\ frame' = [frame EXCEPT ![t].pc = "idle", ![t].outcome = exc,
                              ![t].fwdHooks = {}, ![t].emb_grads = <<>>]
    /\ failed' = TRUE
    /\ streak' = [streak EXCEPT !.len = 0]

\* Variant: self.model.train() runs before the model-type check.
GetGradsEnter_TrainFirst(t, texts) ==
    /\ frame[t].pc = "idle"
    /\ modelKind = "t5"
    /\ training' = TRUE
    /\ frame' = [frame EXCEPT ![t] =
           [NoFrame EXCEPT !.op = "get_grads", !.texts = texts,
                           !.outcome = "NotImplementedError", !.pre = Snapshot]]
    /\ failed' = TRUE
    /\ streak' = [streak EXCEPT !.len = 0]
    /\ last' = NoLast
    /\ UNCHANGED <<configVars, requires_grad, hooks, paramGrads, nCalls,
                   gradsEntered, overlapped>>

\* Variant: the call never switches the model to training mode.
GetGradsEnter_NoTrain(t, texts) ==
    /\ frame[t].pc = "idle"
    /\ modelKind = "classifier"
    /\ nCalls < MaxCalls
    /\ nCalls' = nCalls + 1
    /\ gradsEntered' = TRUE
    /\ overlapped' = (overlapped \/ \E u \in Threads \ {t} : frame[u].pc # "idle")
    /\ frame' = [frame EXCEPT ![t] =
           [NoFrame EXCEPT !.pc = "l71", !.op = "get_grads", !.texts = texts,
                           !.call = nCalls + 1, !.pre = Snapshot]]
    /\ streak' = IF streak.len = 0 THEN [len |-> 0, flag |-> requires_grad] ELSE streak
    /\ last' = NoLast
    /\ UNCHANGED <<configVars, training, requires_grad, hooks, paramGrads, failed>>

\* lines 67-70: reject text-to-text models, else self.model.train().
GetGradsEnter(t, texts) ==
    /\ frame[t].pc = "idle"
    /\ IF modelKind = "t5"
       THEN /\ frame' = [frame EXCEPT ![t] =
                   [NoFrame EXCEPT !.op = "get_grads", !.texts = texts,
                                   !.outcome = "NotImplementedError",
                                   !.pre = Snapshot]]
            /\ failed' = TRUE
            /\ streak' = [streak EXCEPT !.len = 0]
            /\ UNCHANGED <<training, nCalls, gradsEntered, overlapped>>
       ELSE /\ nCalls < MaxCalls
            /\ nCalls' = nCalls + 1
            /\ training' = TRUE
            /\ gradsEntered' = TRUE
            /\ overlapped' = (overlapped \/ \E u \in Threads \ {t} : frame[u].pc # "idle")
            /\ frame' = [frame EXCEPT ![t] =
                   [NoFrame EXCEPT !.pc = "l71", !.op = "get_grads",
                                   !.texts = texts, !.call = nCalls + 1,
                                   !.pre = Snapshot]]
            /\ streak' = IF streak.len = 0
                         THEN [len |-> 0, flag |-> requires_grad]
                         ELSE streak
            /\ UNCHANGED failed
    /\ last' = NoLast
    /\ UNCHANGED <<configVars, requires_grad, hooks, paramGrads>>

\* Variant: the flag is read after it has been forced to True.
ReadState_AfterForce(t) ==
    /\ frame[t].pc = "l71"
    /\ frame' = [frame EXCEPT ![t].pc = "l73", ![t].original_state = TRUE]
    /\ UNCHANGED <<modelVars, configVars, nCalls, last, gradsEntered, overlapped,
                   failed, streak>>

\* lines 71-72: original_state = embedding_layer.weight.requires_grad
ReadState(t) ==
    /\ frame[t].pc = "l71"
    /\ frame' = [frame EXCEPT ![t].pc = "l73", ![t].original_state = requires_grad]
    /\ UNCHANGED <<modelVars, configVars, nCalls, last, gradsEntered, overlapped,
                   failed, streak>>

\* line 73: embedding_layer.weight.requires_grad = True
ForceTrainable(t) ==
    /\ frame[t].pc = "l73"
    /\ requires_grad' = TRUE
    /\ frame' = [frame EXCEPT ![t].pc = "l75"]
    /\ UNCHANGED <<configVars, training, hooks, paramGrads, nCalls,
                   last, gradsEntered, overlapped, failed, streak>>

\* lines 75-79: emb_grads = []; emb_hook = register_backward_hook(grad_hook)
RegisterHook(t) ==
    /\ frame[t].pc = "l75"
    /\ hooks' = hooks \cup {frame[t].call}
    /\ frame' = [frame EXCEPT ![t].pc = "l81", ![t].emb_grads = <<>>]
    /\ UNCHANGED <<configVars, training, requires_grad, paramGrads, nCalls,
                   last, gradsEntered, overlapped, failed, streak>>

\* lines 81-82: self.model.zero_grad()
ZeroGrad(t) ==
    /\ frame[t].pc = "l81"
    /\ paramGrads' = {}
    /\ frame' = [frame EXCEPT ![t].pc = "l83"]
    /\ UNCHANGED <<configVars, training, requires_grad, hooks, nCalls,
                   last, gradsEntered, overlapped, failed, streak>>

\* lines 83-84: ids = self.tokenize(...); tokens = [convert_ids_to_tokens ...]
Tokenize(t, fault) ==
    /\ frame[t].pc = "l83"
    /\ IF fault
       THEN Raise(t, "RuntimeError")
       ELSE /\ LET ids == tokenize(frame[t].texts)
               IN  frame' = [frame EXCEPT
                       ![t].pc = "l86", ![t].ids = ids,
                       ![t].tokens = [i \in 1..Len(ids) |->
                                         convert_ids_to_tokens(ids[i]["input_ids"])]]
            /\ UNCHANGED <<failed, streak>>
    /\ UNCHANGED <<modelVars, configVars, nCalls, last, gradsEntered, overlapped>>

\* lines 86-87: predictions = self._model_predict(ids), one unbatched
\* forward pass with gradient tracking on.  The hooks registered on the
\* embedding layer at this moment are attached to the output's grad_fn when
\* the output takes part in the graph, i.e. when the weights are trainable.
Forward(t, fault, d) ==
    /\ frame[t].pc = "l86"
    /\ (training \/ d = 0)
    /\ LET r == _model_predict(modelKind, training, d, frame[t].ids)
       IN  IF fault \/ r.outcome # "returned"
           THEN Raise(t, IF fault THEN "RuntimeError" ELSE r.outcome)
           ELSE /\ frame' = [frame EXCEPT
                       ![t].pc = "l89", ![t].predictions = r.value,
                       ![t].fwdHooks = IF requires_grad THEN hooks ELSE {}]
                /\ UNCHANGED <<failed, streak>>
    /\ UNCHANGED <<modelVars, configVars, nCalls, last, gradsEntered, overlapped>>

\* line 89: loss = self.loss_fn(predictions, original_label).  The scores
\* are consumed here; nothing after this line reads them.
Loss(t, fault) ==
    /\ frame[t].pc = "l89"
    /\ IF fault
       THEN Raise(t, "RuntimeError")
       ELSE /\ frame' = [frame EXCEPT ![t].pc = "l90", ![t].predictions = <<>>]
            /\ UNCHANGED <<failed, streak>>
    /\ UNCHANGED <<modelVars, configVars, nCalls, last, gradsEntered, overlapped>>

\* line 90: loss.backward(): parameter gradients accumulate and every hook
\* attached by this call's forward pass receives this call's gradient and
\* appends it to the emb_grads list of the call that registered it.  The
\* list of a call that has already left is unreachable and is not kept.
Backward(t, fault) ==
    /\ frame[t].pc = "l90"
    /\ IF fault
       THEN /\ Raise(t, "RuntimeError")
            /\ UNCHANGED paramGrads
       ELSE /\ paramGrads' = paramGrads \cup {frame[t].call}
            /\ LET g == EmbeddingGrad(frame[t].call, embDims,
                                      Len(frame[t].ids),
                                      Len(frame[t].ids[1]["input_ids"]))
               IN  frame' = [u \in Threads |->
                      LET f == IF u = t THEN [frame[u] EXCEPT !.pc = "l93"]
                               ELSE frame[u]
                      IN  IF frame[u].pc # "idle" /\ frame[u].call \in frame[t].fwdHooks
                          THEN [f EXCEPT !.emb_grads = Append(f.emb_grads, g)]
                          ELSE f]
            /\ UNCHANGED <<failed, streak>>
    /\ UNCHANGED <<configVars, training, requires_grad, hooks, nCalls, last,
                   gradsEntered, overlapped>>

\* lines 93-98: grad = emb_grads[0], then split or wrap it.
ShapeGrad(t) ==
    /\ frame[t].pc = "l93"
    /\ IF frame[t].emb_grads = <<>>
       THEN Raise(t, "IndexError")
       ELSE /\ frame' = [frame EXCEPT
                   ![t].pc = "l100",
                   ![t].grad = GradList(frame[t].emb_grads[1])]
            /\ UNCHANGED <<failed, streak>>
    /\ UNCHANGED <<modelVars, configVars, nCalls, last, gradsEntered, overlapped>>

\* Variant: the flag is not written back.
RestoreState_Skip(t) ==
    /\ frame[t].pc = "l100"
    /\ frame' = [frame EXCEPT ![t].pc = "l101"]
    /\ UNCHANGED <<modelVars, configVars, nCalls, last, gradsEntered, overlapped,
                   failed, streak>>

\* line 100: embedding_layer.weight.requires_grad = original_state
RestoreState(t) ==
    /\ frame[t].pc = "l100"
    /\ requires_grad' = frame[t].original_state
    /\ frame' = [frame EXCEPT ![t].pc = "l101"]
    /\ UNCHANGED <<configVars, training, hooks, paramGrads, nCalls,
                   last, gradsEntered, overlapped, failed, streak>>

\* line 101: emb_hook.remove()
RemoveHook(t) ==
    /\ frame[t].pc = "l101"
    /\ hooks' = hooks \ {frame[t].call}
    /\ frame' = [frame EXCEPT ![t].pc = "l103"]
    /\ UNCHANGED <<configVars, training, requires_grad, paramGrads,
                   nCalls, last, gradsEntered, overlapped, failed, streak>>

\* lines 103-105: return {"tokens": tokens, "ids": ids, "gradient": grad}
Return(t) ==
    /\ frame[t].pc = "l103"
    /\ frame' = [frame EXCEPT ![t].pc = "idle", ![t].outcome = "returned"]
    /\ streak' = [streak EXCEPT !.len = streak.len + 1]
    /\ UNCHANGED <<modelVars, configVars, nCalls, last, gradsEntered, overlapped,
                   failed>>

\* ------------------------------------------------------------ specifications
SeqThreads == {1}

\* One caller: calls follow one another.
Next ==
    \/ \E texts \in GradTextLists : \E fault \in FaultPoints(texts) :
           \E noise \in DropoutSeqs(training, Len(texts)) : Predict(texts, fault, noise)
    \/ \E t \in SeqThreads : \E texts \in GradTextLists : GetGradsEnter(t, texts)
    \/ \E t \in SeqThreads : ReadState(t)
    \/ \E t \in SeqThreads : ForceTrainable(t)
    \/ \E t \in SeqThreads : RegisterHook(t)
    \/ \E t \in SeqThreads : ZeroGrad(t)
    \/ \E t \in SeqThreads : \E fault \in BOOLEAN : Tokenize(t, fault)
    \/ \E t \in SeqThreads : \E fault \in BOOLEAN : \E d \in Dropout : Forward(t, fault, d)
    \/ \E t \in SeqThreads : \E fault \in BOOLEAN : Loss(t, fault)
    \/ \E t \in SeqThreads : \E fault \in BOOLEAN : Backward(t, fault)
    \/ \E t \in SeqThreads : ShapeGrad(t)
    \/ \E t \in SeqThreads : RestoreState(t)
    \/ \E t \in SeqThreads : RemoveHook(t)
    \/ \E t \in SeqThreads : Return(t)

Spec == Init /\ [][Next]_vars

\* Two callers on the same wrapper, nothing serializes them.
NextConc ==
    \/ \E t \in Threads : \E texts \in ConcTextLists : GetGradsEnter(t, texts)
    \/ \E t \in Threads : ReadState(t)
    \/ \E t \in Threads : ForceTrainable(t)
    \/ \E t \in Threads : RegisterHook(t)
    \/ \E t \in Threads : ZeroGrad(t)
    \/ \E t \in Threads : \E fault \in BOOLEAN : Tokenize(t, fault)
    \/ \E t \in Threads : \E fault \in BOOLEAN : \E d \in Dropout : Forward(t, fault, d)
    \/ \E t \in Threads : \E fault \in BOOLEAN : Loss(t, fault)
    \/ \E t \in Threads : \E fault \in BOOLEAN : Backward(t, fault)
    \/ \E t \in Threads : ShapeGrad(t)
    \/ \E t \in Threads : RestoreState(t)
    \/ \E t \in Threads : RemoveHook(t)
    \/ \E t \in Threads : Return(t)

InitConc == Init /\ batch_size = 1 /\ paramGrads = {}

SpecConc == InitConc /\ [][NextConc]_vars

\* __call__ alone, on every list of up to MaxTexts texts.
NextPredict == \E texts \in TextLists : \E fault \in FaultPoints(texts) :
           \E noise \in DropoutSeqs(training, Len(texts)) : Predict(texts, fault, noise)

\* __call__ reads the model family, its mode and batch_size only.
InitPredict == Init /\ embDims = 3 /\ paramGrads = {} /\ ~requires_grad

SpecPredict == InitPredict /\ [][NextPredict]_vars

\* _model_predict applied to arbitrary lists of per-text mappings.
NextModelPredict ==
    \E inputs \in EncodedLists : \E d \in Dropout : ModelPredictCall(inputs, d)

SpecModelPredict == Init /\ [][NextModelPredict]_vars

\* ------------------------------------------------------------------ properties
\* Control has left get_grads in thread t.
Left(t) == frame[t].op = "get_grads" /\ frame[t].pc = "idle" /\ frame[t].outcome # "none"

Returned(t) == Left(t) /\ frame[t].outcome = "returned"

\* C1: on every exit path of get_grads on a classification model, normal or
\* exceptional, the embedding trainable flag equals its value before the call
\* and the hook registered by the call is no longer registered.
C1_CleanupOnEveryExit ==
    \A t \in Threads :
        (Left(t) /\ modelKind = "classifier") =>
            /\ requires_grad = frame[t].pre.requires_grad
            /\ frame[t].call \notin hooks

\* C2: for a non-empty list of texts and any batch_size > 0, predict returns
\* one result per text, in input order, and the same result as with a
\* batch_size equal to the number of texts.
C2_BatchingTransparent ==
    (last.op = "predict" /\ last.texts # <<>> /\ ~last.fault) =>
        /\ last.outcome = "returned"
        /\ Len(last.value) = Len(last.texts)
        /\ last.value = Call(modelKind, last.fwdTraining, last.noise,
                             last.texts, Len(last.texts)).value

\* C3: the gradient list returned by get_grads has one tensor per input text,
\* split along the batch dimension, when the captured tensor has more than
\* two dimensions, and exactly one tensor when it has two dimensions.
C3_GradientPerText ==
    \A t \in Threads :
        Returned(t) =>
            LET g == frame[t].emb_grads[1]
            IN  /\ Len(g.shape) > 2 =>
                       /\ Len(frame[t].grad) = Len(frame[t].texts)
                       /\ \A i \in 1..Len(frame[t].grad) :
                              frame[t].grad[i].data = g.data[i]
                /\ Len(g.shape) = 2 => Len(frame[t].grad) = 1

\* C4: get_grads on a text-to-text model fails with the unsupported error
\* and leaves train/eval mode, trainable flag, hooks and accumulated
\* gradients as they were before the call.
C4_T5Unsupported ==
    \A t \in Threads :
        (modelKind = "t5" /\ frame[t].op = "get_grads") =>
            /\ frame[t].pc = "idle"
            /\ frame[t].outcome = "NotImplementedError"
            /\ Snapshot = frame[t].pre
            /\ nCalls = 0

C4_Witness ==
    /\ modelKind = "t5"
    /\ frame[1].outcome = "NotImplementedError"
    /\ frame[1].texts # <<>>
    /\ ~training /\ ~requires_grad /\ paramGrads = {0}

\* C5: after any number (in particular two) of successive get_grads calls
\* that all return normally, the trainable flag equals its value before the
\* first of them, whichever value that was.
C5_FlagRestored ==
    (AllIdle /\ streak.len >= 1) => requires_grad = streak.flag

C5_Witness ==
    /\ AllIdle /\ streak.len = 2 /\ ~streak.flag /\ ~flag0 /\ ~failed
    /\ Returned(1)

\* C6: after get_grads returns normally the call's hook is not registered
\* any more and no gradients of its backward pass remain accumulated on the
\* model's parameters.
C6_NoResidue ==
    \A t \in Threads :
        Returned(t) =>
            /\ frame[t].call \notin hooks
            /\ frame[t].call \notin paramGrads

\* C7: when the per-text mappings of a batch do not all have the same field
\* names, the transposition fails before the model is called.
SameFields(inputs) == \A i \in 1..Len(inputs) : DOMAIN inputs[i] = DOMAIN inputs[1]

C7_MismatchFailsFast ==
    (last.op = "_model_predict" /\ ~SameFields(last.inputs)) =>
        /\ last.outcome # "returned"
        /\ last.fwdCount = 0

\* C8: predict on an empty list of texts fails with an error; it returns no
\* (empty) result and runs no forward pass.
C8_EmptyInputFails ==
    (last.op = "predict" /\ last.texts = <<>>) =>
        /\ last.outcome # "returned"
        /\ last.fwdCount = 0

\* C9: as long as get_grads calls do not overlap, every call that returns
\* hands back tensors of its own backward pass, and once all calls have
\* returned normally the trainable flag is what it was before any of them;
\* with overlapping calls both can fail (C9_Witness).
C9_SerializedCallsAreSafe ==
    ~overlapped =>
        /\ \A t \in Threads :
               Returned(t) =>
                   \A i \in 1..Len(frame[t].grad) :
                       frame[t].grad[i].owner = frame[t].call
        /\ (AllIdle /\ ~failed /\ nCalls >= 1) => requires_grad = flag0

C9_Witness ==
    /\ overlapped /\ ~failed /\ nCalls = 2
    /\ Returned(1) /\ Returned(2)
    /\ \E t \in Threads : frame[t].grad[1].owner # frame[t].call
    /\ requires_grad # flag0

\* C10: once a get_grads call on a classification model has passed its
\* first step the model is in training mode, whatever its mode before, and
\* every later predict forward pass runs in training mode.
C10_TrainingModeSticks ==
    /\ gradsEntered => training
    /\ (last.op = "predict" /\ last.fwdAfterGrads) => last.fwdTraining

C10_Witness ==
    /\ ~training0 /\ gradsEntered /\ failed
    /\ last.op = "predict" /\ last.fwdAfterGrads /\ last.fwdCount >= 1
    /\ last.fwdTraining
====
